---------------------------- MODULE Spec2Model ----------------------------
(***************************************************************************)
(* Model of src/app.py: the IW32 long-text automation.                     *)
(*                                                                         *)
(* One call is modelled at a time.  `entry` names the function that was    *)
(* called, `arg` holds its arguments, `pc` the position inside it, `ret`   *)
(* the returned value and `err` the exception that left it.                *)
(*                                                                         *)
(*   SpecVisible  ensure_visible(tbl, abs_row, visible_rows)               *)
(*   SpecCoerce   coerce_os_to_str + the work / os_list block              *)
(*   SpecWait     wait_not_busy(session, timeout), polled against a clock  *)
(*   SpecClip     set_clipboard(texto)                                     *)
(*   SpecPush     push_to_sap(...) called by the run button handler        *)
(*                                                                         *)
(* The statements `findById(id).press`, `.select`, `.setDocum` and         *)
(* `.maximize` read an attribute and call nothing.  Whether such a read    *)
(* makes the session act is up to the binding of the session object: one   *)
(* that dispatches on the bare name acts, one that hands back a bound      *)
(* method does nothing.  arg.bare_read_calls holds which one the run has.  *)
(***************************************************************************)
EXTENDS Integers, Sequences, FiniteSets, TLC

VARIABLES
    entry,      \* the function under call
    arg,        \* its arguments
    pc,         \* position inside the call
    ret,        \* returned value
    err,        \* exception that left the call ("none" when none)
    scroll,     \* tbl.VerticalScrollbar.Position
    i,          \* push_to_sap: loop index
    vis_row,    \* push_to_sap: vis_row
    texto,      \* set_clipboard: local texto after normalisation
    busy,       \* session.Busy
    trace,      \* interactions that reached the session, in order
    progress,   \* values handed to progress_cb, in order (<<num, den>>)
    logs,       \* messages handed to log_cb, in order
    clipOpen,   \* this process holds the clipboard
    clipText,   \* text in the clipboard
    editing,    \* row whose long text editor is open in the session (-1: none)
    sapRows,    \* long texts applied in the session, as [row, text] records
    now,        \* time.time(), in ticks
    t0,         \* wait_not_busy: t0
    sample,     \* wait_not_busy: the value session.Busy gave the loop test
    cleared,    \* session.Busy has been false since the call began
    wsite,      \* push_to_sap: the call of wait_not_busy under way
    ui          \* what the run button handler reported

vars == << entry, arg, pc, ret, err, scroll, i, vis_row, texto, busy, trace,
           progress, logs, clipOpen, clipText, editing, sapRows, now, t0,
           sample, cleared, wsite, ui >>

(* The variables of the row loop, of the clipboard, of the session's long  *)
(* texts and of the clock.                                                 *)
loopVars == << i, vis_row, progress, logs, ui >>
clipVars == << texto, clipOpen, clipText >>
sapVars  == << trace, editing, sapRows >>
waitVars == << now, t0, sample, cleared, wsite >>

----------------------------------------------------------------------------
(* Bounds of the model.                                                    *)

MaxAbsRow == 6       \* ensure_visible: abs_row in 0..MaxAbsRow
MaxVisible == 4      \* ensure_visible: visible_rows in 1..MaxVisible
MaxCellLen == 3      \* coerce_os_to_str: length of a string cell
MaxCellNum == 12     \* coerce_os_to_str: magnitude of a numeric cell
MaxTextLen == 4      \* set_clipboard: length of texto
MaxTimeout == 5      \* wait_not_busy: timeout in 0..MaxTimeout ticks
MaxRows == 3         \* push_to_sap: len(long_texts) in 0..MaxRows
MaxPushVisible == 2  \* push_to_sap: visible_rows in 1..MaxPushVisible
MaxDelay == 1        \* wait_not_busy: ticks a read of session.Busy takes, and
                     \* ticks a sleep overruns

(* time.sleep(0.1), in ticks of 50 ms.                                     *)
PollTicks == 2

----------------------------------------------------------------------------
(* Helpers on sequences.                                                   *)

Max(a, b) == IF a >= b THEN a ELSE b

SeqsUpTo(S, n) == UNION { [1..k -> S] : k \in 0..n }

(* No value returned (yet), and the value a call returned.                 *)
None == [none |-> TRUE]
Returns(v) == [value |-> v]

(* The state before a call: everything a call may touch at rest.           *)
AtCall(e, a, sc, b) ==
    /\ entry = e
    /\ arg = a
    /\ pc = "call"
    /\ ret = None
    /\ err = "none"
    /\ scroll = sc
    /\ i = 0
    /\ vis_row = 0
    /\ texto = << >>
    /\ busy = b
    /\ trace = << >>
    /\ progress = << >>
    /\ logs = << >>
    /\ clipOpen = FALSE
    /\ clipText = << >>
    /\ editing = -1
    /\ sapRows = {}
    /\ now = 0
    /\ t0 = 0
    /\ sample = FALSE
    /\ cleared = FALSE
    /\ wsite = "none"
    /\ ui = "none"

----------------------------------------------------------------------------
(* ensure_visible                                                          *)

ensure_visible_pinned_past(abs_row, visible_rows) ==
    LET scroll_pos == IF abs_row < visible_rows THEN 0
                      ELSE abs_row - visible_rows
    IN  [scroll_pos |-> scroll_pos, relative |-> abs_row - scroll_pos]

(* scroll_pos as computed, and the returned abs_row - scroll_pos.          *)
ensure_visible(abs_row, visible_rows) ==
    LET scroll_pos == IF abs_row < visible_rows THEN 0
                      ELSE abs_row - (visible_rows - 1)
    IN  [scroll_pos |-> scroll_pos, relative |-> abs_row - scroll_pos]

EnsureVisibleCall ==
    /\ entry = "ensure_visible"
    /\ pc = "call"
    /\ LET r == ensure_visible(arg.abs_row, arg.visible_rows)
       IN  /\ scroll' = r.scroll_pos
           /\ ret' = Returns(r.relative)
    /\ pc' = "returned"
    /\ UNCHANGED << entry, arg, err, busy, loopVars, clipVars, sapVars,
                    waitVars >>

InitVisible ==
    \E a \in 0..MaxAbsRow, v \in 1..MaxVisible, sc \in 0..MaxAbsRow :
        AtCall("ensure_visible", [abs_row |-> a, visible_rows |-> v], sc, FALSE)

NextVisible == EnsureVisibleCall

SpecVisible == InitVisible /\ [][NextVisible]_vars

(* C1: for abs_row >= 0 and visible_rows > 0, ensure_visible leaves the    *)
(* table at a scroll position >= 0 and returns abs_row - scroll position,  *)
(* which lies in 0..visible_rows-1; the position is 0 when abs_row <       *)
(* visible_rows and abs_row - (visible_rows - 1) otherwise, where the row  *)
(* sits in the last visible slot.                                          *)
C1_EnsureVisible ==
    (entry = "ensure_visible" /\ pc = "returned") =>
        /\ scroll >= 0
        /\ ret.value = arg.abs_row - scroll
        /\ 0 <= ret.value /\ ret.value < arg.visible_rows
        /\ (arg.abs_row < arg.visible_rows => scroll = 0)
        /\ (arg.abs_row >= arg.visible_rows =>
                /\ scroll = arg.abs_row - (arg.visible_rows - 1)
                /\ ret.value = arg.visible_rows - 1)

C1_Witness ==
    /\ entry = "ensure_visible" /\ pc = "returned"
    /\ arg.abs_row = 5 /\ arg.visible_rows = 3
    /\ scroll = 3 /\ ret = Returns(2)

----------------------------------------------------------------------------
(* coerce_os_to_str and the work / os_list block                           *)
(*                                                                         *)
(* A spreadsheet cell is [kind, n, s]:                                     *)
(*   "nan"    NaN / None, what pd.isna accepts                             *)
(*   "int"    the integer n                                                *)
(*   "bool"   True (n = 1) or False (n = 0), an instance of int            *)
(*   "float"  the float n / 10 (whole numbers and halves are drawn)        *)
(*   "inf"    float infinity, negative when n < 0                          *)
(*   "str"    the string s, a sequence of characters                       *)

CellChars == { "6", "0", ".", " " }

Digit == << "0", "1", "2", "3", "4", "5", "6", "7", "8", "9" >>

Cell(kind, n, s) == [kind |-> kind, n |-> n, s |-> s]

Cells ==
    { Cell("nan", 0, << >>) }
    \cup { Cell("int", n, << >>) : n \in -MaxCellNum..MaxCellNum }
    \cup { Cell("bool", n, << >>) : n \in 0..1 }
    \cup { Cell("float", 10 * n + f, << >>) :
                n \in -MaxCellNum..MaxCellNum, f \in { 0, 5 } }
    \cup { Cell("inf", n, << >>) : n \in {-1, 1} }
    \cup { Cell("str", 0, s) : s \in SeqsUpTo(CellChars, MaxCellLen) }

(* str(n) for a non-negative integer n.                                    *)
RECURSIVE StrNat(_)
StrNat(n) == IF n < 10 THEN << Digit[n + 1] >>
             ELSE StrNat(n \div 10) \o << Digit[(n % 10) + 1] >>

(* str(n) for an integer n.                                                *)
StrInt(n) == IF n < 0 THEN << "-" >> \o StrNat(-n) ELSE StrNat(n)

(* int(x) for the float x = tenths / 10: truncation toward zero.           *)
IntOfFloat(tenths) ==
    IF tenths >= 0 THEN tenths \div 10 ELSE -((-tenths) \div 10)

(* str.strip(): whitespace removed at both ends.                           *)
RECURSIVE LStrip(_)
LStrip(s) == IF s # << >> /\ Head(s) = " " THEN LStrip(Tail(s)) ELSE s

RECURSIVE RStrip(_)
RStrip(s) == IF s # << >> /\ s[Len(s)] = " "
             THEN RStrip(SubSeq(s, 1, Len(s) - 1)) ELSE s

Strip(s) == RStrip(LStrip(s))

(* str.endswith(suffix).                                                   *)
EndsWith(s, suffix) ==
    /\ Len(s) >= Len(suffix)
    /\ SubSeq(s, Len(s) - Len(suffix) + 1, Len(s)) = suffix

DotZero == << ".", "0" >>

conv_keep_float_repr(x) ==
    CASE x.kind = "nan"   -> << >>
      [] x.kind = "int"   -> StrInt(x.n)
      [] x.kind = "bool"  -> IF x.n = 1 THEN << "T", "r", "u", "e" >>
                             ELSE << "F", "a", "l", "s", "e" >>
      [] x.kind = "float" -> StrInt(IntOfFloat(x.n)) \o << "." >>
                             \o StrNat((IF x.n < 0 THEN -x.n ELSE x.n) % 10)
      [] x.kind = "inf"   -> IF x.n < 0 THEN << "-", "i", "n", "f" >>
                             ELSE << "i", "n", "f" >>
      [] x.kind = "str"   -> Strip(x.s)

(* _conv(x).  int(inf) raises OverflowError, which the except branch       *)
(* answers with str(x).                                                    *)
conv(x) ==
    CASE x.kind = "nan"   -> << >>
      [] x.kind = "int"   -> StrInt(x.n)
      [] x.kind = "bool"  -> IF x.n = 1 THEN << "T", "r", "u", "e" >>
                             ELSE << "F", "a", "l", "s", "e" >>
      [] x.kind = "float" -> StrInt(IntOfFloat(x.n))
      [] x.kind = "inf"   -> IF x.n < 0 THEN << "-", "i", "n", "f" >>
                             ELSE << "i", "n", "f" >>
      [] x.kind = "str"   -> LET s == Strip(x.s)
                             IN  IF EndsWith(s, DotZero)
                                 THEN SubSeq(s, 1, Len(s) - 2) ELSE s

(* series.apply(_conv).                                                    *)
coerce_os_to_str(series) == [k \in 1..Len(series) |-> conv(series[k])]

(* The rows kept by work[work["OS_str"] != ""], as row numbers in order.   *)
RECURSIVE WorkRows(_, _)
WorkRows(os_str, k) ==
    IF k > Len(os_str) THEN << >>
    ELSE (IF os_str[k] # << >> THEN << k >> ELSE << >>)
         \o WorkRows(os_str, k + 1)

(* unique(): the values in order of first appearance.                      *)
RECURSIVE Unique(_, _)
Unique(xs, seen) ==
    IF xs = << >> THEN << >>
    ELSE IF Head(xs) \in seen THEN Unique(Tail(xs), seen)
         ELSE << Head(xs) >> \o Unique(Tail(xs), seen \cup { Head(xs) })

(* work["OS_str"] = coerce_os_to_str(...); the filter; st.stop() when      *)
(* nothing is left; os_list.                                               *)
PrepareWork ==
    /\ entry = "coerce_os_to_str"
    /\ pc = "call"
    /\ LET os_str == coerce_os_to_str(arg)
           work == WorkRows(os_str, 1)
           kept == [k \in 1..Len(work) |-> os_str[work[k]]]
       IN  /\ ret' = [OS_str |-> os_str, work |-> work,
                      os_list |-> IF work = << >> THEN << >>
                                  ELSE Unique(kept, {})]
           /\ pc' = IF work = << >> THEN "stopped" ELSE "returned"
    /\ UNCHANGED << entry, arg, err, scroll, busy, loopVars, clipVars,
                    sapVars, waitVars >>

InitCoerce ==
    \E series \in [1..1 -> Cells] \cup [1..2 -> Cells] :
        AtCall("coerce_os_to_str", series, 0, FALSE)

NextCoerce == PrepareWork

SpecCoerce == InitCoerce /\ [][NextCoerce]_vars

(* The integer a digit string denotes, -1 when it is no digit string.      *)
DigitValue(c) == IF \E d \in 1..10 : Digit[d] = c
                 THEN (CHOOSE d \in 1..10 : Digit[d] = c) - 1 ELSE -1

IsDigits(s) == s # << >> /\ \A k \in 1..Len(s) : DigitValue(s[k]) >= 0

RECURSIVE NatOf(_)
NatOf(s) == IF s = << >> THEN 0
            ELSE 10 * NatOf(SubSeq(s, 1, Len(s) - 1)) + DigitValue(s[Len(s)])

(* s is the decimal notation of the integer n.                             *)
IsDecimalOf(s, n) ==
    IF n < 0
    THEN /\ s # << >> /\ Head(s) = "-"
         /\ IsDigits(Tail(s)) /\ NatOf(Tail(s)) = -n
    ELSE IsDigits(s) /\ NatOf(s) = n

AllBlank(s) == \A k \in 1..Len(s) : s[k] = " "

(* C10: coerce_os_to_str gives, for an integer cell and for an             *)
(* integer-valued float cell, the decimal digits of the integer with no    *)
(* trailing ".0"; a digit string is returned unchanged; a string ending in *)
(* ".0" loses that suffix; an empty or missing cell gives the empty        *)
(* string; and the workable set holds no row whose identifier is empty.    *)
C10_Coerce ==
    (entry = "coerce_os_to_str" /\ pc \in { "returned", "stopped" }) =>
        /\ Len(ret.OS_str) = Len(arg)
        /\ \A k \in 1..Len(arg) :
             LET x == arg[k]
                 out == ret.OS_str[k]
             IN  /\ x.kind = "int" => IsDecimalOf(out, x.n)
                 /\ (x.kind = "float" /\ x.n % 10 = 0) =>
                        /\ IsDecimalOf(out, IntOfFloat(x.n))
                        /\ ~ EndsWith(out, DotZero)
                 /\ (x.kind = "str" /\ IsDigits(x.s)) => out = x.s
                 /\ (x.kind = "str" /\ EndsWith(x.s, DotZero)) =>
                        \E b \in 0..Len(x.s) :
                            /\ AllBlank(SubSeq(x.s, 1, b))
                            /\ x.s = SubSeq(x.s, 1, b) \o out \o DotZero
                 /\ (x.kind = "nan" \/ (x.kind = "str" /\ x.s = << >>)) =>
                        out = << >>
        /\ \A k \in 1..Len(ret.work) : ret.OS_str[ret.work[k]] # << >>

C10_Witness ==
    /\ entry = "coerce_os_to_str" /\ pc = "returned"
    /\ arg = << Cell("float", 120, << >>), Cell("nan", 0, << >>) >>
    /\ ret.OS_str = << << "1", "2" >>, << >> >>
    /\ ret.work = << 1 >>

----------------------------------------------------------------------------
(* wait_not_busy(session, timeout)                                         *)
(*                                                                         *)
(* The clock is read in ticks.  time.sleep(0.1) lasts PollTicks ticks or   *)
(* longer, and reading session.Busy takes time too: each by up to MaxDelay *)
(* ticks here.  The session sets and clears its busy flag on its own while *)
(* the call runs.                                                          *)

WaitRunning == pc \in { "call", "wnb_test", "wnb_check", "wnb_sleep" }

(* t0 = time.time()                                                        *)
WnbStart ==
    /\ entry = "wait_not_busy"
    /\ pc = "call"
    /\ t0' = now
    /\ pc' = "wnb_test"
    /\ UNCHANGED << entry, arg, ret, err, scroll, busy, loopVars, clipVars,
                    sapVars, now, sample, cleared, wsite >>

(* while session.Busy: the read of the flag, which takes d ticks; the call *)
(* returns when the flag read is false.                                    *)
WnbTest ==
    /\ entry = "wait_not_busy"
    /\ pc = "wnb_test"
    /\ \E d \in 0..MaxDelay : now' = now + d
    /\ sample' = busy
    /\ pc' = IF busy THEN "wnb_check" ELSE "returned"
    /\ UNCHANGED << entry, arg, ret, err, scroll, busy, loopVars, clipVars,
                    sapVars, t0, cleared, wsite >>

WnbCheck_at_budget ==
    /\ entry = "wait_not_busy"
    /\ pc = "wnb_check"
    /\ IF now - t0 >= arg.timeout
       THEN pc' = "raised" /\ err' = "TimeoutError"
       ELSE pc' = "wnb_sleep" /\ err' = err
    /\ UNCHANGED << entry, arg, ret, scroll, busy, loopVars, clipVars,
                    sapVars, waitVars >>

(* if time.time() - t0 > timeout: raise TimeoutError(...)                  *)
WnbCheck ==
    /\ entry = "wait_not_busy"
    /\ pc = "wnb_check"
    /\ IF now - t0 > arg.timeout
       THEN pc' = "raised" /\ err' = "TimeoutError"
       ELSE pc' = "wnb_sleep" /\ err' = err
    /\ UNCHANGED << entry, arg, ret, scroll, busy, loopVars, clipVars,
                    sapVars, waitVars >>

(* time.sleep(0.1): at least the interval asked for                        *)
WnbSleep ==
    /\ entry = "wait_not_busy"
    /\ pc = "wnb_sleep"
    /\ \E d \in 0..MaxDelay : now' = now + PollTicks + d
    /\ pc' = "wnb_test"
    /\ UNCHANGED << entry, arg, ret, err, scroll, busy, loopVars, clipVars,
                    sapVars, t0, sample, cleared, wsite >>

(* The session changes its busy flag.                                      *)
SessionBusyChanges ==
    /\ entry = "wait_not_busy"
    /\ WaitRunning
    /\ busy' = ~ busy
    /\ cleared' = (cleared \/ ~ busy')
    /\ UNCHANGED << entry, arg, pc, ret, err, scroll, loopVars, clipVars,
                    sapVars, now, t0, sample, wsite >>

WnbStep == WnbStart \/ WnbTest \/ WnbCheck \/ WnbSleep

InitWait ==
    \E timeout \in 0..MaxTimeout, b \in BOOLEAN, start \in { 0, 7 } :
        /\ entry = "wait_not_busy"
        /\ arg = [timeout |-> timeout]
        /\ pc = "call"
        /\ ret = None
        /\ err = "none"
        /\ scroll = 0
        /\ i = 0 /\ vis_row = 0 /\ progress = << >> /\ logs = << >>
        /\ ui = "none"
        /\ texto = << >> /\ clipOpen = FALSE /\ clipText = << >>
        /\ trace = << >> /\ editing = -1 /\ sapRows = {}
        /\ busy = b
        /\ now = start
        /\ t0 = 0
        /\ sample = FALSE
        /\ cleared = ~ b
        /\ wsite = "none"

NextWait == WnbStart \/ WnbTest \/ WnbCheck \/ WnbSleep \/ SessionBusyChanges

(* The calling thread runs on: a statement that can execute does, and the  *)
(* reads of session.Busy and the sleeps come back.                         *)
SpecWait == InitWait /\ [][NextWait]_vars /\ WF_vars(WnbStep)

(* The call returns only on a flag read false and raises only on a flag    *)
(* read true with more than timeout elapsed.                               *)
WaitEndsRight ==
    /\ pc = "returned" => (sample = FALSE /\ err = "none")
    /\ pc = "raised" =>
          /\ err = "TimeoutError"
          /\ sample = TRUE
          /\ now - t0 > arg.timeout

(* With the flag never clear the call ends in TimeoutError, after the      *)
(* budget and no later than `late` ticks after it.                         *)
NeverClearEndsWithin(late) ==
    /\ (pc \in { "returned", "raised" } /\ ~ cleared) =>
          /\ pc = "raised"
          /\ now - t0 > arg.timeout
          /\ now - t0 <= arg.timeout + late
    /\ (WaitRunning /\ pc # "call" /\ ~ cleared) =>
          now - t0 <= arg.timeout + late

(* C5, as stated: wait_not_busy returns only at a sample where             *)
(* session.Busy is false and raises TimeoutError only at a sample where it *)
(* is true and more than timeout has elapsed since the call began; when    *)
(* the flag never clears the call ends in TimeoutError, not before the     *)
(* budget has elapsed and at most one polling interval after it.           *)
C5_OnePollAfterBudget ==
    entry = "wait_not_busy" =>
        (WaitEndsRight /\ NeverClearEndsWithin(PollTicks))

C5_Safety ==
    entry = "wait_not_busy" =>
        (WaitEndsRight /\ NeverClearEndsWithin(PollTicks + 2 * MaxDelay))

(* C5, amended: as stated, except that with the flag never clear the       *)
(* TimeoutError comes at the first check past the budget: no later after   *)
(* the budget than one sleep (the polling interval and what the sleep      *)
(* overran) and the two reads of session.Busy around it took; the call     *)
(* always ends.                                                            *)
C5_WaitNotBusy ==
    /\ []C5_Safety
    /\ <>(pc \in { "returned", "raised" })

C5_Witness ==
    /\ entry = "wait_not_busy" /\ pc = "raised" /\ ~ cleared
    /\ arg.timeout = 3 /\ now - t0 > arg.timeout + PollTicks /\ t0 = 7

----------------------------------------------------------------------------
(* set_clipboard(texto)                                                    *)
(*                                                                         *)
(* An optional string is [isNone, s].  Each win32clipboard call either     *)
(* succeeds or raises.                                                     *)

CR == "\r"
LF == "\n"

TextChars == { "a", CR, LF }

PyNone == [isNone |-> TRUE, s |-> << >>]
PyStr(s) == [isNone |-> FALSE, s |-> s]

(* texto or ""                                                             *)
OrEmpty(t) == IF t.isNone THEN << >> ELSE t.s

(* str.replace("\n", "\r\n")                                               *)
RECURSIVE ReplaceLF(_)
ReplaceLF(s) ==
    IF s = << >> THEN << >>
    ELSE IF Head(s) = LF THEN << CR, LF >> \o ReplaceLF(Tail(s))
         ELSE << Head(s) >> \o ReplaceLF(Tail(s))

(* The argument of the call of set_clipboard under way.                    *)
ClipArg == IF entry = "set_clipboard" THEN arg.texto
           ELSE PyStr(arg.long_texts[i + 1])

ClipCalled == \/ entry = "set_clipboard" /\ pc = "call"
              \/ entry = "push_to_sap" /\ pc = "set_clipboard"

(* Where set_clipboard returns to.                                         *)
ClipReturn == IF entry = "set_clipboard" THEN "returned" ELSE "setdocum"

(* texto = (texto or "").replace("\n", "\r\n")                             *)
ClipNormalize ==
    /\ ClipCalled
    /\ texto' = ReplaceLF(OrEmpty(ClipArg))
    /\ pc' = "clip_open"
    /\ UNCHANGED << entry, arg, ret, err, scroll, busy, loopVars, clipOpen,
                    clipText, sapVars, waitVars >>

(* win32clipboard.OpenClipboard()                                          *)
ClipOpen ==
    /\ pc = "clip_open"
    /\ \E ok \in BOOLEAN :
         IF ok THEN /\ clipOpen' = TRUE
                    /\ pc' = "clip_empty"
                    /\ err' = err
               ELSE /\ clipOpen' = clipOpen
                    /\ pc' = "raised"
                    /\ err' = "OpenClipboardError"
    /\ UNCHANGED << entry, arg, ret, scroll, busy, loopVars, texto, clipText,
                    sapVars, waitVars >>

(* win32clipboard.EmptyClipboard(), inside try                             *)
ClipEmpty ==
    /\ pc = "clip_empty"
    /\ \E ok \in BOOLEAN :
         IF ok THEN /\ clipText' = << >>
                    /\ pc' = "clip_set"
                    /\ err' = err
               ELSE /\ clipText' = clipText
                    /\ pc' = "clip_finally"
                    /\ err' = "EmptyClipboardError"
    /\ UNCHANGED << entry, arg, ret, scroll, busy, loopVars, texto, clipOpen,
                    sapVars, waitVars >>

ClipSetText_no_finally ==
    /\ pc = "clip_set"
    /\ \E ok \in BOOLEAN :
         IF ok THEN /\ clipText' = texto
                    /\ pc' = "clip_finally"
                    /\ err' = err
               ELSE /\ clipText' = clipText
                    /\ pc' = "raised"
                    /\ err' = "SetClipboardTextError"
    /\ UNCHANGED << entry, arg, ret, scroll, busy, loopVars, texto, clipOpen,
                    sapVars, waitVars >>

(* win32clipboard.SetClipboardText(texto), inside try                      *)
ClipSetText ==
    /\ pc = "clip_set"
    /\ \E ok \in BOOLEAN :
         IF ok THEN /\ clipText' = texto
                    /\ pc' = "clip_finally"
                    /\ err' = err
               ELSE /\ clipText' = clipText
                    /\ pc' = "clip_finally"
                    /\ err' = "SetClipboardTextError"
    /\ UNCHANGED << entry, arg, ret, scroll, busy, loopVars, texto, clipOpen,
                    sapVars, waitVars >>

(* finally: win32clipboard.CloseClipboard(); then the return, or the       *)
(* exception of the try block goes on.                                     *)
ClipClose ==
    /\ pc = "clip_finally"
    /\ clipOpen' = FALSE
    /\ pc' = IF err = "none" THEN ClipReturn ELSE "raised"
    /\ UNCHANGED << entry, arg, ret, err, scroll, busy, loopVars, texto,
                    clipText, sapVars, waitVars >>

InitClip ==
    \E t \in { PyNone } \cup { PyStr(s) : s \in SeqsUpTo(TextChars, MaxTextLen) } :
        AtCall("set_clipboard", [texto |-> t], 0, FALSE)

NextClip == ClipNormalize \/ ClipOpen \/ ClipEmpty \/ ClipSetText \/ ClipClose

SpecClip == InitClip /\ [][NextClip]_vars

(* The text with every line break, LF or CR LF, written as one CR LF.      *)
RECURSIVE CanonCRLF(_)
CanonCRLF(s) ==
    IF s = << >> THEN << >>
    ELSE IF Len(s) >= 2 /\ s[1] = CR /\ s[2] = LF
         THEN << CR, LF >> \o CanonCRLF(SubSeq(s, 3, Len(s)))
         ELSE IF s[1] = LF THEN << CR, LF >> \o CanonCRLF(Tail(s))
              ELSE << s[1] >> \o CanonCRLF(Tail(s))

(* C9: set_clipboard stages its text with every line break of the input,   *)
(* LF or CR LF, as exactly one CR LF pair: a text whose breaks are CR LF   *)
(* already is staged unchanged (normalizing is idempotent), and None is    *)
(* staged as the empty string.                                             *)
C9_NormalizesLineBreaks ==
    (entry = "set_clipboard" /\ pc = "returned") =>
        /\ clipText = CanonCRLF(OrEmpty(arg.texto))
        /\ (CanonCRLF(OrEmpty(arg.texto)) = OrEmpty(arg.texto) =>
                clipText = OrEmpty(arg.texto))
        /\ (arg.texto.isNone => clipText = << >>)

----------------------------------------------------------------------------
(* push_to_sap, called by the run button handler                           *)
(*                                                                         *)
(* arg = [windows, bare_read_calls, os_str, long_texts, visible_rows,      *)
(* save_after].  An interaction that reaches the session is appended to    *)
(* `trace` as [op, row, x, y]; a wait_not_busy that returned is appended   *)
(* as "idle".  findById either resolves or raises; after an interaction    *)
(* the session may be busy.  wait_not_busy(session) polls as in the code,  *)
(* the session changing its flag between the reads.  The clock is not kept *)
(* here: how long the reads of session.Busy and the sleeps last is the     *)
(* environment's, so the test against the 60 s budget may go either way.   *)

PushTexts == { << "a" >>, << "a", LF, "b" >> }

Ev(op, row, x, y) == [op |-> op, row |-> row, x |-> x, y |-> y]

Total == Len(arg.long_texts)

InPush(p) == entry = "push_to_sap" /\ pc = p

(* An exception leaves push_to_sap.                                        *)
Raise(e) == pc' = "raised" /\ err' = e

(* session.findById(id) followed by a call or an assignment (sendVKey(0),  *)
(* .text = ..., .caretPosition = ...): the element resolves and the        *)
(* interaction reaches the session, or findById raises.                    *)
Interact(p, ev, next) ==
    /\ InPush(p)
    /\ \E found \in BOOLEAN :
         IF found
         THEN /\ trace' = Append(trace, ev)
              /\ busy' \in BOOLEAN
              /\ pc' = next
              /\ err' = err
         ELSE /\ Raise("ElementNotFound")
              /\ UNCHANGED << trace, busy >>

(* session.findById(id).<name>, the attribute read and dropped: findById   *)
(* resolves or raises; the session acts only under a binding that acts on  *)
(* a bare read.                                                            *)
ReadAttr(p, ev, next) ==
    /\ InPush(p)
    /\ \E found \in BOOLEAN :
         IF found
         THEN /\ IF arg.bare_read_calls
                 THEN trace' = Append(trace, ev) /\ busy' \in BOOLEAN
                 ELSE UNCHANGED << trace, busy >>
              /\ pc' = next
              /\ err' = err
         ELSE /\ Raise("ElementNotFound")
              /\ UNCHANGED << trace, busy >>

(* The step made the session act.                                          *)
Reached == Len(trace') > Len(trace)

(* if not platform.system().lower().startswith("win"): raise RuntimeError  *)
PushPlatformCheck ==
    /\ InPush("call")
    /\ IF arg.windows THEN pc' = "connect" /\ err' = err
       ELSE Raise("RuntimeError")
    /\ UNCHANGED << entry, arg, ret, scroll, busy, loopVars, clipVars,
                    sapVars, waitVars >>

(* session = connect_sap_session(...)                                      *)
PushConnect ==
    /\ InPush("connect")
    /\ \E ok \in BOOLEAN :
         IF ok THEN pc' = "maximize" /\ err' = err
         ELSE Raise("ConnectError")
    /\ UNCHANGED << entry, arg, ret, scroll, busy, loopVars, clipVars,
                    sapVars, waitVars >>

(* session.findById("wnd[0]").maximize; log_cb("Abrindo IW32 ...")         *)
PushMaximize ==
    /\ ReadAttr("maximize", Ev("maximize", -1, 0, 0), "okcd")
    /\ logs' = IF pc' = "okcd" THEN Append(logs, "Abrindo IW32") ELSE logs
    /\ UNCHANGED << entry, arg, ret, scroll, i, vis_row, progress, ui,
                    clipVars, editing, sapRows, waitVars >>

(* open_iw32_and_load_os: findById(OKCD_ID).text = "/nIW32"                *)
OpenSetOkcd ==
    /\ Interact("okcd", Ev("set_okcd", -1, 0, 0), "enter1")
    /\ UNCHANGED << entry, arg, ret, scroll, loopVars, clipVars, editing,
                    sapRows, waitVars >>

(* open_iw32_and_load_os: findById("wnd[0]").sendVKey(0), first            *)
OpenSendEnter1 ==
    /\ Interact("enter1", Ev("sendVKey", -1, 0, 0), "wait_enter1")
    /\ UNCHANGED << entry, arg, ret, scroll, loopVars, clipVars, editing,
                    sapRows, waitVars >>

(* open_iw32_and_load_os: findById(OS_FIELD_ID).text = os_str              *)
OpenSetOsField ==
    /\ Interact("os_field", Ev("set_os", -1, 0, 0), "os_caret")
    /\ UNCHANGED << entry, arg, ret, scroll, loopVars, clipVars, editing,
                    sapRows, waitVars >>

(* open_iw32_and_load_os: findById(OS_FIELD_ID).caretPosition = len(os_str) *)
OpenSetCaret ==
    /\ Interact("os_caret", Ev("set_caret", -1, Len(arg.os_str), 0), "enter2")
    /\ UNCHANGED << entry, arg, ret, scroll, loopVars, clipVars, editing,
                    sapRows, waitVars >>

(* open_iw32_and_load_os: findById("wnd[0]").sendVKey(0), second           *)
OpenSendEnter2 ==
    /\ Interact("enter2", Ev("sendVKey", -1, 0, 0), "wait_enter2")
    /\ UNCHANGED << entry, arg, ret, scroll, loopVars, clipVars, editing,
                    sapRows, waitVars >>

(* session.findById(TAB_OPERACOES_ID).select                               *)
PushSelectTab ==
    /\ ReadAttr("tab", Ev("select", -1, 0, 0), "wait_tab")
    /\ UNCHANGED << entry, arg, ret, scroll, loopVars, clipVars, editing,
                    sapRows, waitVars >>

(* tbl = session.findById(TBL_PATH)                                        *)
PushFindTable ==
    /\ InPush("tbl")
    /\ \E found \in BOOLEAN :
         IF found THEN pc' = "loop" /\ err' = err
         ELSE Raise("ElementNotFound")
    /\ UNCHANGED << entry, arg, ret, scroll, busy, loopVars, clipVars,
                    sapVars, waitVars >>

(* for i, texto in enumerate(long_texts):                                  *)
(*     progress_cb((i + 1) / max(total, 1))                                *)
PushLoopHead ==
    /\ InPush("loop")
    /\ IF i < Total
       THEN /\ progress' = Append(progress, << i + 1, Max(Total, 1) >>)
            /\ pc' = "scroll"
       ELSE /\ progress' = progress
            /\ pc' = "save_check"
    /\ UNCHANGED << entry, arg, ret, err, scroll, busy, i, vis_row, logs, ui,
                    clipVars, sapVars, waitVars >>

(* vis_row = ensure_visible(tbl, i, visible_rows)                          *)
PushEnsureVisible ==
    /\ InPush("scroll")
    /\ LET r == ensure_visible(i, arg.visible_rows)
       IN  /\ scroll' = r.scroll_pos
           /\ vis_row' = r.relative
           /\ trace' = Append(trace, Ev("scroll", i, r.relative, r.scroll_pos))
    /\ busy' \in BOOLEAN
    /\ pc' = "press_lt"
    /\ UNCHANGED << entry, arg, ret, err, i, progress, logs, ui, clipVars,
                    editing, sapRows, waitVars >>

(* findById(BTN_TEXTO_LONGO_FMT.format(row=row)).press: the session opens  *)
(* the long text of the row shown at that slot.                            *)
PressLongTextAt(row) ==
    /\ ReadAttr("press_lt", Ev("press_lt", i, row, scroll), "wait_lt")
    /\ editing' = IF Reached THEN scroll + row ELSE editing
    /\ UNCHANGED << entry, arg, ret, scroll, loopVars, clipVars, sapRows,
                    waitVars >>

(* session.findById(BTN_TEXTO_LONGO_FMT.format(row=vis_row)).press         *)
PushPressLongText == PressLongTextAt(vis_row)

(* session.findById(LONGTEXT_SHELL_ID).setDocum: the session takes the     *)
(* clipboard text as the long text of the row being edited.                *)
PushSetDocum ==
    /\ ReadAttr("setdocum", Ev("setDocum", i, 0, 0), "wait_docum")
    /\ sapRows' = IF Reached /\ editing # -1
                  THEN { a \in sapRows : a.row # editing }
                       \cup { [row |-> editing, text |-> clipText] }
                  ELSE sapRows
    /\ UNCHANGED << entry, arg, ret, scroll, loopVars, clipVars, editing,
                    waitVars >>

(* session.findById(BTN_BACK_ID).press                                     *)
PushBack ==
    /\ ReadAttr("back", Ev("back", i, 0, 0), "wait_back")
    /\ editing' = IF Reached THEN -1 ELSE editing
    /\ UNCHANGED << entry, arg, ret, scroll, loopVars, clipVars, sapRows,
                    waitVars >>

(* log_cb(f"Linha {i+1}/{total}: texto longo aplicado."); next i           *)
PushRowDone ==
    /\ InPush("row_done")
    /\ logs' = Append(logs, "Linha aplicada")
    /\ i' = i + 1
    /\ pc' = "loop"
    /\ UNCHANGED << entry, arg, ret, err, scroll, busy, vis_row, progress, ui,
                    clipVars, sapVars, waitVars >>

(* The test of the trailing save, on the flag given.                       *)
SaveCheckOn(flag) ==
    /\ InPush("save_check")
    /\ IF flag
       THEN logs' = Append(logs, "Salvando a ordem") /\ pc' = "save"
       ELSE logs' = logs /\ pc' = "final_progress"
    /\ UNCHANGED << entry, arg, ret, err, scroll, busy, i, vis_row, progress,
                    ui, clipVars, sapVars, waitVars >>

(* if save_after: log_cb("Salvando a ordem...")                            *)
PushSaveCheck == SaveCheckOn(arg.save_after)

(* session.findById(BTN_SAVE_ID).press                                     *)
PushSave ==
    /\ ReadAttr("save", Ev("save", -1, 0, 0), "wait_save")
    /\ UNCHANGED << entry, arg, ret, scroll, loopVars, clipVars, editing,
                    sapRows, waitVars >>

(* progress_cb(1.0); return True                                           *)
PushFinalProgress ==
    /\ InPush("final_progress")
    /\ progress' = Append(progress, << 1, 1 >>)
    /\ ret' = Returns(TRUE)
    /\ pc' = "returned"
    /\ UNCHANGED << entry, arg, err, scroll, busy, i, vis_row, logs, ui,
                    clipVars, sapVars, waitVars >>

(* The calls of wait_not_busy(session) and the statement after each.       *)
WaitSites == { "wait_enter1", "wait_enter2", "wait_tab", "wait_lt",
               "wait_docum", "wait_back", "wait_save" }

AfterWait(p) ==
    CASE p = "wait_enter1" -> "os_field"
      [] p = "wait_enter2" -> "tab"
      [] p = "wait_tab"    -> "tbl"
      [] p = "wait_lt"     -> "set_clipboard"
      [] p = "wait_docum"  -> "back"
      [] p = "wait_back"   -> "row_done"
      [] p = "wait_save"   -> "final_progress"

PushWaiting == entry = "push_to_sap"
               /\ pc \in { "wnb_test", "wnb_check", "wnb_sleep" }

(* wait_not_busy(session) is called: t0 = time.time()                      *)
PushWnbStart ==
    /\ entry = "push_to_sap"
    /\ pc \in WaitSites
    /\ wsite' = pc
    /\ pc' = "wnb_test"
    /\ UNCHANGED << entry, arg, ret, err, scroll, busy, loopVars, clipVars,
                    sapVars, now, t0, sample, cleared >>

(* while session.Busy: the read of the flag; wait_not_busy returns to the  *)
(* statement after its call when the flag read is false.                   *)
PushWnbTest ==
    /\ InPush("wnb_test")
    /\ sample' = busy
    /\ IF busy
       THEN /\ pc' = "wnb_check"
            /\ UNCHANGED << trace, wsite >>
       ELSE /\ pc' = AfterWait(wsite)
            /\ trace' = Append(trace, Ev("idle", -1, 0, 0))
            /\ wsite' = "none"
    /\ UNCHANGED << entry, arg, ret, err, scroll, busy, loopVars, clipVars,
                    editing, sapRows, now, t0, cleared >>

(* if time.time() - t0 > timeout: raise TimeoutError(...); where the       *)
(* TimeoutError takes the caller is the parameter.                         *)
PushWnbCheckThen(onTimeoutPc) ==
    /\ InPush("wnb_check")
    /\ \E exceeded \in BOOLEAN :
         IF exceeded
         THEN pc' = onTimeoutPc /\ err' = "TimeoutError"
         ELSE pc' = "wnb_sleep" /\ err' = err
    /\ UNCHANGED << entry, arg, ret, scroll, busy, loopVars, clipVars,
                    sapVars, waitVars >>

PushWnbCheck_swallowed == PushWnbCheckThen(AfterWait(wsite))

(* The timeout check inside push_to_sap: the TimeoutError is not caught.   *)
PushWnbCheck == PushWnbCheckThen("raised")

(* time.sleep(0.1)                                                         *)
PushWnbSleep ==
    /\ InPush("wnb_sleep")
    /\ pc' = "wnb_test"
    /\ UNCHANGED << entry, arg, ret, err, scroll, busy, loopVars, clipVars,
                    sapVars, waitVars >>

(* The session changes its busy flag while push_to_sap waits.              *)
PushSessionBusyChanges ==
    /\ PushWaiting
    /\ busy' = ~ busy
    /\ UNCHANGED << entry, arg, pc, ret, err, scroll, loopVars, clipVars,
                    sapVars, waitVars >>

(* run button handler: st.success(...)                                     *)
RunReportSuccess ==
    /\ InPush("returned")
    /\ ui' = "success"
    /\ pc' = "done"
    /\ UNCHANGED << entry, arg, ret, err, scroll, busy, i, vis_row, progress,
                    logs, clipVars, sapVars, waitVars >>

(* run button handler: except Exception as e: st.error(...); st.warning    *)
RunReportFailure ==
    /\ InPush("raised")
    /\ ui' = "error"
    /\ pc' = "done"
    /\ UNCHANGED << entry, arg, ret, err, scroll, busy, i, vis_row, progress,
                    logs, clipVars, sapVars, waitVars >>

InitPush ==
    \E windows \in BOOLEAN, calls \in BOOLEAN, save_after \in BOOLEAN,
       b \in BOOLEAN, v \in 1..MaxPushVisible, sc \in 0..1,
       texts \in SeqsUpTo(PushTexts, MaxRows) :
        AtCall("push_to_sap",
               [windows |-> windows, bare_read_calls |-> calls,
                os_str |-> << "6", "0" >>,
                long_texts |-> texts, visible_rows |-> v,
                save_after |-> save_after],
               sc, b)

NextPush ==
    \/ PushPlatformCheck \/ PushConnect \/ PushMaximize
    \/ OpenSetOkcd \/ OpenSendEnter1 \/ OpenSetOsField \/ OpenSetCaret
    \/ OpenSendEnter2 \/ PushSelectTab \/ PushFindTable
    \/ PushLoopHead \/ PushEnsureVisible \/ PushPressLongText
    \/ ClipNormalize \/ ClipOpen \/ ClipEmpty \/ ClipSetText \/ ClipClose
    \/ PushSetDocum \/ PushBack \/ PushRowDone
    \/ PushSaveCheck \/ PushSave \/ PushFinalProgress
    \/ PushWnbStart \/ PushWnbTest \/ PushWnbCheck \/ PushWnbSleep
    \/ PushSessionBusyChanges
    \/ RunReportSuccess \/ RunReportFailure

SpecPush == InitPush /\ [][NextPush]_vars

----------------------------------------------------------------------------
(* Properties of push_to_sap.                                              *)

Ops(op) == SelectSeq(trace, LAMBDA e : e.op = op)

RunOver == entry = "push_to_sap" /\ pc = "done"

Succeeded == RunOver /\ err = "none"

Failed == entry = "push_to_sap" /\ err # "none"

(* The position max(0, i - (v - 1)) row i is to be shown at.               *)
ScrollFor(row, v) == Max(0, row - (v - 1))

(* The (relative row, scroll position) pairs of the long-text buttons      *)
(* pressed, in order.                                                      *)
Pairs == [k \in 1..Len(Ops("press_lt")) |->
            << Ops("press_lt")[k].x, Ops("press_lt")[k].y >>]

(* C2: rows are processed in index order without overlap: the scroll of    *)
(* row r > 0 comes right after the Return of row r - 1 and its completed   *)
(* wait; row r is scrolled to max(0, r - (v - 1)) and its long-text button *)
(* is pressed at relative row r minus that position, which opens row r; a  *)
(* successful run does this for every row, and for 3 texts and v = 2 the   *)
(* pairs are (0,0), (1,0), (1,1).                                          *)
C2_RowOrder ==
    entry = "push_to_sap" =>
        /\ \A k \in 1..Len(Ops("scroll")) :
             /\ Ops("scroll")[k].row = k - 1
             /\ Ops("scroll")[k].y = ScrollFor(k - 1, arg.visible_rows)
        /\ \A k \in 1..Len(Ops("press_lt")) :
             /\ Ops("press_lt")[k].row = k - 1
             /\ Ops("press_lt")[k].y = ScrollFor(k - 1, arg.visible_rows)
             /\ Ops("press_lt")[k].x = (k - 1) - Ops("press_lt")[k].y
        /\ Len(Ops("press_lt")) <= Len(Ops("scroll"))
        /\ Len(Ops("scroll")) <= Len(Ops("press_lt")) + 1
        /\ \A p \in 1..Len(trace) :
             (trace[p].op = "scroll" /\ trace[p].row > 0) =>
                /\ p >= 3
                /\ trace[p - 1].op = "idle"
                /\ trace[p - 2].op = "back"
                /\ trace[p - 2].row = trace[p].row - 1
        /\ editing # -1 => editing = i
        /\ Succeeded =>
             /\ Len(Ops("scroll")) = Total
             /\ Len(Ops("press_lt")) = Total
             /\ (Total = 3 /\ arg.visible_rows = 2) =>
                    Pairs = << << 0, 0 >>, << 1, 0 >>, << 1, 1 >> >>

StateChanging == { "sendVKey", "select", "scroll", "press_lt", "setDocum",
                   "back", "save" }

(* C3: every state-changing interaction with the session (Enter key, tab   *)
(* selection, scroll position, long-text, back and save buttons, applying  *)
(* the document) is followed by a completed wait_not_busy before the next  *)
(* interaction with the session is issued.                                 *)
C3_WaitAfterEveryInteraction ==
    entry = "push_to_sap" =>
        \A p \in 1..Len(trace) :
            (trace[p].op \in StateChanging /\ p < Len(trace)) =>
                trace[p + 1].op = "idle"

(* A row that holds an applied long text keeps holding one.                *)
NoRollback == \A a \in sapRows : \E b \in sapRows' : b.row = a.row

C4_State ==
    entry = "push_to_sap" =>
        /\ (RunOver /\ err # "none") => (ui = "error" /\ ret = None)
        /\ (RunOver /\ err = "none") => (ui = "success" /\ ret = Returns(TRUE))

(* Once a step has failed the error stays, nothing more reaches the        *)
(* session, no further row is begun and what was applied stays applied.    *)
C4_Step ==
    /\ entry = "push_to_sap" => NoRollback
    /\ Failed => /\ err' = err
                 /\ trace' = trace
                 /\ sapRows' = sapRows
                 /\ i' = i
                 /\ progress' = progress
                 /\ pc' \in { "raised", "done" }

(* C4: a failing step (a wait_not_busy timeout, a findById that does not   *)
(* resolve, a clipboard failure) aborts the run there: the error reaches   *)
(* the caller, is not retried, no further interaction with the session is  *)
(* issued, and what earlier rows applied stays applied (no rollback).      *)
C4_FailureAborts == []C4_State /\ [][C4_Step]_vars

C4_Witness ==
    /\ RunOver /\ err = "TimeoutError" /\ ui = "error"
    /\ i = 1 /\ Total = 3
    /\ trace[Len(trace)].op = "press_lt"
    /\ sapRows = { [row |-> 0, text |-> ReplaceLF(arg.long_texts[1])] }

(* C6: the last fraction handed to progress_cb never exceeds the number of *)
(* rows whose cycle has completed over the total: progress (i+1)/total is  *)
(* reported only after row i's Scroll, Open field, Paste and Return.       *)
C6_ProgressAfterRow ==
    (entry = "push_to_sap" /\ progress # << >>) =>
        progress[Len(progress)][1] * Total <= i * progress[Len(progress)][2]

(* The row loop ran to its end without a failure.                          *)
LoopCompleted ==
    /\ i = Total
    /\ IF arg.save_after THEN "Salvando a ordem" \in { logs[k] : k \in 1..Len(logs) }
       ELSE pc \in { "final_progress", "returned", "done" } /\ err = "none"

SavePressed == Len(Ops("save")) >= 1

(* The save is pressed at most once, only when asked and after the loop,   *)
(* right after the Return and wait of the last row, and a wait follows it. *)
SaveWellPlaced ==
    /\ Len(Ops("save")) <= 1
    /\ SavePressed => (arg.save_after /\ LoopCompleted)
    /\ ~ arg.save_after => ~ SavePressed
    /\ \A p \in 1..Len(trace) :
         trace[p].op = "save" =>
            /\ \A q \in (p + 1)..Len(trace) : trace[q].op = "idle"
            /\ Len(trace) <= p + 1
            /\ Len(trace) = p => \/ pc = "wait_save"
                                 \/ wsite = "wait_save"
                                 \/ err = "TimeoutError"
            /\ Total > 0 => /\ p >= 3
                            /\ trace[p - 1].op = "idle"
                            /\ trace[p - 2].op = "back"
                            /\ trace[p - 2].row = Total - 1

(* C7: the save button is pressed if and only if save_after is true and   *)
(* the run reached the end of the row loop without failure, the save       *)
(* button itself resolving; pressed once, after the last row, followed by  *)
(* a wait; never pressed when save_after is false.                         *)
C7_SaveIffLoopCompleted ==
    entry = "push_to_sap" =>
        /\ SaveWellPlaced
        /\ RunOver => (SavePressed <=> /\ arg.save_after
                                       /\ LoopCompleted
                                       /\ err # "ElementNotFound")

(* C8: the clipboard is held only between a successful OpenClipboard and   *)
(* the CloseClipboard of the finally block: never while push_to_sap        *)
(* interacts with the session, and not after set_clipboard or push_to_sap  *)
(* has ended, by return or by error.                                       *)
C8_ClipboardScoped ==
    clipOpen => pc \in { "clip_empty", "clip_set", "clip_finally" }

C8_Witness ==
    /\ RunOver /\ err = "SetClipboardTextError"
    /\ ~ clipOpen
    /\ i = 1

=============================================================================
